---- MODULE Spec2Model ----
(***************************************************************************)
(* Model of mbn_loader.py: the MBN ROM header decoder (MbnHeader), the     *)
(* image segmenter (MbnRom) and the IDA loader entry points (accept_file,  *)
(* load_file) that register the segments with the host database.           *)
(*                                                                         *)
(* Python integers are unbounded, so every quantity computed from header   *)
(* fields is kept as a two-limb number [hi, lo] of value hi * 2^16 + lo.   *)
(* Byte strings are sequences over 0..255, names are sequences of          *)
(* one-token strings.                                                      *)
(***************************************************************************)
EXTENDS Integers, Sequences, FiniteSets, TLC

VARIABLES
    li,         \* contents of the input file handed to accept_file/load_file
    ret,        \* what accept_file returned
    rom_data,   \* load_file: bytes of the ROM being loaded
    rom_name,   \* load_file: name of the ROM being loaded
    rom,        \* the MbnRom object last constructed
    idb,        \* the host database: the calls made on it, in order
    pc,         \* position in the loader
    n,          \* the n of the last accept_file call
    loaded      \* load_file: the (name, bytes) of each ROM parsed so far

vars == <<li, ret, rom_data, rom_name, rom, idb, pc, n, loaded>>

(***************************************************************************)
(* Bounds of the model.                                                    *)
(***************************************************************************)
MaxPayload == 5     \* bytes that follow the 40-byte header in an input file
MaxSize == 3        \* largest small value of code_size/signature_size/cert_chain_size
MaxRoms == 2        \* iterations of load_file's loop
MaxN == 1           \* largest n handed to accept_file

(***************************************************************************)
(* Python integers.                                                        *)
(***************************************************************************)
Limb == 65536

Big(h, l) == [hi |-> h, lo |-> l]

FromInt(k) == Big(k \div Limb, k % Limb)

BigAdd(a, b) == Big(a.hi + b.hi + ((a.lo + b.lo) \div Limb), (a.lo + b.lo) % Limb)

BigSub(a, b) == Big(a.hi - b.hi + ((a.lo - b.lo) \div Limb), (a.lo - b.lo) % Limb)

BigLt(a, b) == a.hi < b.hi \/ (a.hi = b.hi /\ a.lo < b.lo)

BigLeq(a, b) == a = b \/ BigLt(a, b)

Zero == Big(0, 0)

U32Max == Big(Limb - 1, Limb - 1)

\* The value None, for a byte string and for an address attribute never set.
None == <<-1>>

Unset == Big(-1, 0)

(***************************************************************************)
(* Slicing s[a:b] and s[a:] of a Python sequence with non-negative         *)
(* indices: both ends are clamped to len(s), an inverted range is empty.   *)
(***************************************************************************)
Clamp(a, len) == IF a.hi > 0 \/ a.lo > len THEN len ELSE a.lo

Slice(s, a, b) == SubSeq(s, Clamp(a, Len(s)) + 1, Clamp(b, Len(s)))

SliceFrom(s, a) == SubSeq(s, Clamp(a, Len(s)) + 1, Len(s))

(***************************************************************************)
(* class MbnHeader                                                         *)
(***************************************************************************)
SBL_HEADER_SIZE == 40

\* One '<L' field of struct.unpack_from: four bytes, least significant first.
UnpackL(rom_bytes, off) ==
    Big(rom_bytes[off + 3] + 256 * rom_bytes[off + 4],
        rom_bytes[off + 1] + 256 * rom_bytes[off + 2])

MbnHeader(rom_bytes) ==
    IF Len(rom_bytes) < SBL_HEADER_SIZE
    THEN [err |-> "Invalid ROM header size"]
    ELSE [err |-> "ok",
          load_index |-> UnpackL(rom_bytes, 0),
          flash_partition_version |-> UnpackL(rom_bytes, 4),
          image_offset |-> UnpackL(rom_bytes, 8),
          image_virtual_address |-> UnpackL(rom_bytes, 12),
          image_size |-> UnpackL(rom_bytes, 16),
          code_size |-> UnpackL(rom_bytes, 20),
          signature_virtual_address |-> UnpackL(rom_bytes, 24),
          signature_size |-> UnpackL(rom_bytes, 28),
          cert_chain_virtual_address |-> UnpackL(rom_bytes, 32),
          cert_chain_size |-> UnpackL(rom_bytes, 36)]

(***************************************************************************)
(* class MbnRom                                                            *)
(***************************************************************************)
\* The value of a constructor call that raised ValueError(msg).
Raise(msg) == [err |-> msg]

image_start(header) == BigAdd(header.image_offset, FromInt(SBL_HEADER_SIZE))

image_end(header) == BigAdd(image_start(header), header.image_size)

\* The slices below are taken from buf, which is rom_data itself in MbnRom;
\* applied to the index sequence of rom_data the same slices give the source
\* range of each section.
image(header, buf) == Slice(buf, image_start(header), image_end(header))

overlay(header, buf) == SliceFrom(buf, image_end(header))

overlay_base(header) == BigAdd(header.image_virtual_address, header.image_size)

\* The sanity check of the image.
\* Variant: the sanity check left out.
InvalidImageSize_Never(img) == FALSE

InvalidImageSize(img) == Len(img) = 0

sig_end(header) == BigAdd(header.code_size, header.signature_size)

cert_end(header) == BigAdd(sig_end(header), header.cert_chain_size)

code_data(header, img) == Slice(img, Zero, header.code_size)

\* Variant: the signature sliced from the start of the image.
sig_data_FromStart(header, img) == Slice(img, Zero, header.signature_size)

sig_data(header, img) == Slice(img, header.code_size, sig_end(header))

cert_data(header, img) == Slice(img, sig_end(header), cert_end(header))

tail_size(header, img) == BigSub(FromInt(Len(img)), cert_end(header))

\* Variant: the tail placed after code and signature only.
tail_base_NoCert(header) == BigAdd(header.image_virtual_address, sig_end(header))

tail_base(header) == BigAdd(header.image_virtual_address, cert_end(header))

\* Variant: the tail sliced from the end of the signature.
tail_data_FromSigEnd(header, img) == SliceFrom(img, sig_end(header))

tail_data(header, img) == SliceFrom(img, cert_end(header))

\* The body of MbnRom.__init__ after the header is parsed.
Carve(header, buf) ==
    LET img == image(header, buf)
        ovl == overlay(header, buf)
    IN  IF InvalidImageSize(img)
        THEN Raise("Invalid ROM image size")
        ELSE [err |-> "ok",
              header |-> header,
              image |-> img,
              overlay_data |-> IF Len(ovl) = 0 THEN None ELSE ovl,
              overlay_base |-> IF Len(ovl) = 0 THEN Unset ELSE overlay_base(header),
              code_base |-> header.image_virtual_address,
              code_data |-> code_data(header, img),
              sig_data |-> IF BigLt(Zero, header.signature_size)
                           THEN sig_data(header, img) ELSE None,
              sig_base |-> IF BigLt(Zero, header.signature_size)
                           THEN header.signature_virtual_address ELSE Unset,
              cert_data |-> IF BigLt(Zero, header.cert_chain_size)
                            THEN cert_data(header, img) ELSE None,
              cert_base |-> IF BigLt(Zero, header.cert_chain_size)
                            THEN header.cert_chain_virtual_address ELSE Unset,
              tail_data |-> IF BigLt(Zero, tail_size(header, img))
                            THEN tail_data(header, img) ELSE None,
              tail_base |-> IF BigLt(Zero, tail_size(header, img))
                            THEN tail_base(header) ELSE Unset]

MbnRom(rom_bytes) ==
    LET header == MbnHeader(rom_bytes)
    IN  IF header.err # "ok" THEN Raise(header.err) ELSE Carve(header, rom_bytes)

(***************************************************************************)
(* Input files.                                                            *)
(***************************************************************************)
\* The four bytes that UnpackL reads back as v.
PackL(v) == <<v.lo % 256, v.lo \div 256, v.hi % 256, v.hi \div 256>>

HeaderBytes(f) ==
    PackL(f[1]) \o PackL(f[2]) \o PackL(f[3]) \o PackL(f[4]) \o PackL(f[5]) \o
    PackL(f[6]) \o PackL(f[7]) \o PackL(f[8]) \o PackL(f[9]) \o PackL(f[10])

\* Payloads of k bytes: one of k distinct bytes (none of them a byte of the
\* headers below), one of k equal bytes.
Ramp(k) == [i \in 1..k |-> 160 + i]

Flat(k) == [i \in 1..k |-> 85]

Payloads(lens) == {Ramp(k) : k \in lens} \cup {Flat(k) : k \in lens}

SmallSizes == {FromInt(k) : k \in 0..MaxSize}

SIG_VA == Big(0, 8192)

CERT_VA == Big(65535, 0)

\* Files with a complete header: every combination of the given field values
\* followed by every payload.
Files(offsets, vas, image_sizes, code_sizes, sig_sizes, cert_sizes, payloads) ==
    {HeaderBytes(<<FromInt(5), FromInt(3), o, va, isz, csz, SIG_VA, ssz, CERT_VA, tsz>>) \o p :
        o \in offsets, va \in vas, isz \in image_sizes, csz \in code_sizes,
        ssz \in sig_sizes, tsz \in cert_sizes, p \in payloads}

\* Files too short to hold a header.
ShortFiles == {<<>>, [i \in 1..(SBL_HEADER_SIZE - 1) |-> 0]}

\* The inputs MbnRom is constructed from: the short files, and every header
\* over the field values below followed by every payload of up to MaxPayload
\* bytes.
RomOffsets == {Zero, FromInt(1), U32Max}

RomAddresses == {Big(0, 4096), U32Max}

RomImageSizes == {FromInt(k) : k \in 0..(MaxPayload + 1)} \cup {U32Max}

RomInput(data) ==
    \/ data \in ShortFiles
    \/ \E o \in RomOffsets, va \in RomAddresses, isz \in RomImageSizes,
          csz \in SmallSizes, ssz \in SmallSizes, tsz \in SmallSizes,
          p \in Payloads(0..MaxPayload) :
            data = HeaderBytes(<<FromInt(5), FromInt(3), o, va, isz, csz,
                                 SIG_VA, ssz, CERT_VA, tsz>>) \o p

NoRom == [err |-> "unconstructed"]

\* What accept_file returns: the format record, or 0.
Accepted == [format |-> "MBN ROM", options |-> 1]

Rejected == [format |-> "0", options |-> 0]

NotCalled == [format |-> "", options |-> 0]

(***************************************************************************)
(* MbnRom on its own: construct one Rom from one input.                    *)
(***************************************************************************)
InitRom ==
    /\ RomInput(li)
    /\ rom_data = li
    /\ rom = NoRom
    /\ pc = "new"
    /\ ret = NotCalled
    /\ n = 0
    /\ rom_name = <<>>
    /\ idb = <<>>
    /\ loaded = <<>>

Construct ==
    /\ pc = "new"
    /\ rom' = MbnRom(rom_data)
    /\ pc' = "constructed"
    /\ UNCHANGED <<li, ret, rom_data, rom_name, idb, n, loaded>>

NextRom == Construct

SpecRom == InitRom /\ [][NextRom]_vars

(***************************************************************************)
(* The host side: names, the database, accept_file and load_file.          *)
(***************************************************************************)
\* A prompt that was cancelled returns None.
NoAnswer == <<"None">>

\* os.path.basename(name): what follows the last "/".
basename(name) ==
    LET slashes == {i \in 1..Len(name) : name[i] = "/"}
    IN  IF slashes = {} THEN name
        ELSE SubSeq(name, (CHOOSE i \in slashes : \A j \in slashes : j <= i) + 1, Len(name))

\* name.split('.')[0]: what precedes the first ".".
split0(name) ==
    LET dots == {i \in 1..Len(name) : name[i] = "."}
    IN  IF dots = {} THEN name
        ELSE SubSeq(name, 1, (CHOOSE i \in dots : \A j \in dots : i <= j) - 1)

HexDigits == <<"0", "1", "2", "3", "4", "5", "6", "7", "8", "9", "A", "B", "C", "D", "E", "F">>

RECURSIVE HexOf(_)
HexOf(k) == IF k < 16 THEN <<HexDigits[k + 1]>>
            ELSE HexOf(k \div 16) \o <<HexDigits[(k % 16) + 1]>>

ZeroPad(digits, width) ==
    [i \in 1..(width - Len(digits)) |-> "0"] \o digits

\* '0x%08X' % value
Format08X(value) ==
    <<"0x">> \o (IF value.hi = 0 THEN ZeroPad(HexOf(value.lo), 8)
                 ELSE ZeroPad(HexOf(value.hi) \o ZeroPad(HexOf(value.lo), 4), 8))

\* AddSegment(name, base_address, data) on the database db.
AddSegment(db, name, base_address, data) ==
    Append(db, [op |-> "AddSegment", name |-> name,
                startEA |-> base_address,
                endEA |-> BigAdd(base_address, FromInt(Len(data))),
                data |-> data])

add_entry(db, ea, name) ==
    Append(db, [op |-> "add_entry", ea |-> ea, name |-> name])

\* AddIdbComment(image_base, key, value); value is Unset when not given, and
\* is otherwise one of the integers load_file passes.  The text is kept as the
\* key column and the value column (the padding of the key column is layout).
AddIdbComment(db, image_base, key, value) ==
    Append(db, [op |-> "describe", ea |-> image_base,
                text |-> IF value = Unset THEN <<key>>
                         ELSE <<key, ":">> \o Format08X(value)])

\* Variant: accepting as soon as the header can be read.
accept_file_HeaderOnly(input, k) ==
    IF k > 0 THEN Rejected
    ELSE IF MbnHeader(input).err = "ok" THEN Accepted ELSE Rejected

accept_file(input, k) ==
    IF k > 0 THEN Rejected
    ELSE IF MbnRom(input).err = "ok" THEN Accepted ELSE Rejected

\* Lines 163-187 of load_file: the segments, the entry point and the comments
\* of one parsed ROM.
Register(db, name, r) ==
    LET image_base == r.header.image_virtual_address
        d1 == AddSegment(db, name \o <<"_code">>, r.code_base, r.code_data)
        d2 == IF r.sig_data # None
              THEN AddSegment(d1, name \o <<"_sig">>, r.sig_base, r.sig_data) ELSE d1
        d3 == IF r.cert_data # None
              THEN AddSegment(d2, name \o <<"_cert">>, r.cert_base, r.cert_data) ELSE d2
        d4 == IF r.tail_data # None
              THEN AddSegment(d3, name \o <<"_tail">>, r.tail_base, r.tail_data) ELSE d3
        d5 == IF r.overlay_data # None
              THEN AddSegment(d4, name \o <<"_overlay">>, r.overlay_base, r.overlay_data)
              ELSE d4
        d6 == add_entry(d5, r.code_base, name \o <<"_start">>)
        c1 == AddIdbComment(d6, image_base, <<"ROM: ">> \o name, Unset)
        c2 == AddIdbComment(c1, image_base, <<>>, Unset)
        c3 == AddIdbComment(c2, image_base, <<"Load Index">>, r.header.load_index)
        c4 == AddIdbComment(c3, image_base, <<"Flash Partition Version">>,
                            r.header.flash_partition_version)
        c5 == AddIdbComment(c4, image_base, <<"Image File Offset">>,
                            BigAdd(r.header.image_offset, FromInt(SBL_HEADER_SIZE)))
        c6 == AddIdbComment(c5, image_base, <<"Image VA">>, r.header.image_virtual_address)
        c7 == AddIdbComment(c6, image_base, <<"Image Size">>, r.header.image_size)
        c8 == AddIdbComment(c7, image_base, <<"Code VA">>, r.header.code_size)
        c9 == AddIdbComment(c8, image_base, <<"Signature VA">>,
                            r.header.signature_virtual_address)
        c10 == AddIdbComment(c9, image_base, <<"Signature Size">>, r.header.signature_size)
        c11 == AddIdbComment(c10, image_base, <<"Cert Chain VA">>,
                             r.header.cert_chain_virtual_address)
    IN  AddIdbComment(c11, image_base, <<"Cert Chain Size">>, r.header.cert_chain_size)

\* Files offered to the loader and at the 'next ROM' prompt.
LoaderInputs ==
    ShortFiles \cup
    Files({Zero, FromInt(4)}, {Big(0, 4096)}, {Zero, FromInt(2), FromInt(3)},
          {FromInt(1), FromInt(2)}, {Zero, FromInt(1)}, {Zero, FromInt(1)},
          {<<>>, <<85, 170, 85>>})

\* Answers to "Enter the input file's basename:".
AskStrAnswers == {<<>>, NoAnswer, <<"s", ".", "m">>}

\* Answers to "Choose the next ROM filename to load".
AskFileAnswers == {NoAnswer, <<"d", "/", "t", ".", "m">>}

Init ==
    /\ li \in LoaderInputs
    /\ ret = NotCalled
    /\ n = 0
    /\ rom_data = <<>>
    /\ rom_name = <<>>
    /\ rom = NoRom
    /\ idb = <<>>
    /\ pc = "accept_file"
    /\ loaded = <<>>

\* The host probes the file: accept_file(li, k).
AcceptFile ==
    /\ pc = "accept_file"
    /\ \E k \in 0..MaxN :
        /\ n' = k
        /\ ret' = accept_file(li, k)
    /\ pc' = IF ret' = Accepted THEN "load_file" ELSE "accept_file"
    /\ UNCHANGED <<li, rom_data, rom_name, rom, idb, loaded>>

\* load_file up to the first prompt: the file is rewound and read.
LoadFile ==
    /\ pc = "load_file"
    /\ rom_data' = li
    /\ rom_name' = <<>>
    /\ pc' = "AskStr"
    /\ UNCHANGED <<li, ret, rom, idb, n, loaded>>

\* One round of the prompt for the base name.
AskStr ==
    /\ pc = "AskStr"
    /\ \E answer \in AskStrAnswers :
        /\ rom_name' = IF answer = NoAnswer THEN <<"r", "o", "m">> ELSE answer
        /\ pc' = IF answer = <<>> THEN "AskStr" ELSE "loop"
    /\ UNCHANGED <<li, ret, rom_data, rom, idb, n, loaded>>

\* One pass of the loop body up to the 'next ROM' prompt: the ROM is parsed
\* (an exception leaves load_file) and then registered.
\* Variant: the code segment is registered from the header before the image is
\* checked.
LoopBody_RegisterFirst ==
    /\ pc = "loop"
    /\ rom_name' = split0(basename(rom_name))
    /\ rom' = MbnRom(rom_data)
    /\ IF rom'.err = "ok"
       THEN /\ idb' = Register(idb, rom_name', rom')
            /\ loaded' = Append(loaded, <<rom_name', rom_data>>)
            /\ pc' = "AskFile"
       ELSE /\ pc' = "ValueError"
            /\ idb' = IF MbnHeader(rom_data).err = "ok"
                      THEN AddSegment(idb, rom_name' \o <<"_code">>,
                                      MbnHeader(rom_data).image_virtual_address, <<>>)
                      ELSE idb
            /\ UNCHANGED loaded
    /\ UNCHANGED <<li, ret, rom_data, n>>

LoopBody ==
    /\ pc = "loop"
    /\ rom_name' = split0(basename(rom_name))
    /\ rom' = MbnRom(rom_data)
    /\ IF rom'.err = "ok"
       THEN /\ idb' = Register(idb, rom_name', rom')
            /\ loaded' = Append(loaded, <<rom_name', rom_data>>)
            /\ pc' = "AskFile"
       ELSE /\ pc' = "ValueError"
            /\ UNCHANGED <<idb, loaded>>
    /\ UNCHANGED <<li, ret, rom_data, n>>

\* The 'next ROM' prompt: cancel returns 1, a file name is opened and read.
AskFile ==
    /\ pc = "AskFile"
    /\ \E answer \in AskFileAnswers :
        IF answer = NoAnswer
        THEN /\ pc' = "done"
             /\ UNCHANGED <<rom_name, rom_data>>
        ELSE /\ Len(loaded) < MaxRoms
             /\ rom_name' = answer
             /\ \/ /\ \E content \in LoaderInputs : rom_data' = content
                   /\ pc' = "loop"
                \/ /\ pc' = "IOError"
                   /\ UNCHANGED rom_data
    /\ UNCHANGED <<li, ret, rom, idb, n, loaded>>

Next == AcceptFile \/ LoadFile \/ AskStr \/ LoopBody \/ AskFile

Spec == Init /\ [][Next]_vars

(***************************************************************************)
(* Vocabulary of the properties: what the header of the current input      *)
(* says, stated from the byte layout and the input alone.                  *)
(***************************************************************************)
Constructed == pc = "constructed"

Returned == Constructed /\ rom.err = "ok"

HasHeader == Len(rom_data) >= SBL_HEADER_SIZE

hdr == MbnHeader(rom_data)

InputLen == FromInt(Len(rom_data))

SizeSum == BigAdd(BigAdd(hdr.code_size, hdr.signature_size), hdr.cert_chain_size)

\* Indices (from 0) of the input bytes that lie in [image_start, image_start + image_size).
ImageIndices ==
    {i \in 0..(Len(rom_data) - 1) :
        /\ BigLeq(image_start(hdr), FromInt(i))
        /\ BigLt(FromInt(i), BigAdd(image_start(hdr), hdr.image_size))}

\* The elements of s at the indices (from 0) of the contiguous set idx, in order.
Extract(s, idx) ==
    IF idx = {} THEN <<>>
    ELSE LET first == CHOOSE i \in idx : \A j \in idx : i <= j
         IN  [k \in 1..Cardinality(idx) |-> s[first + k]]

ImageSlice == Extract(rom_data, ImageIndices)

\* Indices (from 0) of the first size bytes of the image of the file data.
ImageIndicesOf(data, size) ==
    LET h == MbnHeader(data)
    IN  {i \in 0..(Len(data) - 1) :
            /\ BigLeq(image_start(h), FromInt(i))
            /\ BigLt(FromInt(i), BigAdd(image_start(h), h.image_size))
            /\ BigLt(FromInt(i), BigAdd(image_start(h), size))}

\* len(image) - (code_size + signature_size + cert_chain_size)
TailSize == BigSub(FromInt(Cardinality(ImageIndices)), SizeSum)

FullPayload ==
    /\ BigLt(Zero, hdr.image_size)
    /\ BigLeq(BigAdd(image_start(hdr), hdr.image_size), InputLen)

Present(data) == data # None

Bytes(data) == IF Present(data) THEN data ELSE <<>>

IsU32(a) == BigLeq(Zero, a) /\ BigLeq(a, U32Max)

\* The index sequence of the input: slicing it as MbnRom slices rom_data gives
\* the input positions (from 1) each section was taken from.
Positions == [i \in 1..Len(rom_data) |-> i]

src == Carve(hdr, Positions)

\* Every position of a comes before every position of b.
Before(a, b) == \A i \in 1..Len(a) : \A j \in 1..Len(b) : a[i] < b[j]

\* a is a run of consecutive input positions holding exactly the bytes of data.
RangeOf(a, data) ==
    /\ Len(a) = Len(data)
    /\ \A i \in 1..Len(a) : rom_data[a[i]] = data[i]
    /\ \A i \in 1..(Len(a) - 1) : a[i + 1] = a[i] + 1

(***************************************************************************)
(* Properties of MbnRom (specification SpecRom).                           *)
(***************************************************************************)

\* C1: an input with a complete header whose code_size + signature_size +
\* cert_chain_size exceeds image_size makes the construction fail; no Rom
\* is returned for it.
C1_NegativeTailFails ==
    (Constructed /\ HasHeader /\ BigLt(hdr.image_size, SizeSum)) => rom.err # "ok"

\* C2: whenever a Rom is returned, the code segment holds exactly
\* header.code_size bytes.
C2_CodeLengthIsCodeSize ==
    Returned => FromInt(Len(rom.code_data)) = hdr.code_size

\* C3: whenever a Rom is returned, code, signature, cert chain and tail (those
\* present), concatenated in that order, are exactly the image slice
\* input[image_start : image_start + image_size] clamped to the input.
C3_ConcatIsImage ==
    Returned =>
        rom.code_data \o Bytes(rom.sig_data) \o Bytes(rom.cert_data) \o Bytes(rom.tail_data)
            = ImageSlice

C3_Witness ==
    /\ Returned
    /\ Present(rom.sig_data) /\ Present(rom.cert_data)
    /\ Len(rom.code_data) > 0 /\ Len(rom.sig_data) > 0
    /\ ~ Present(rom.tail_data)
    /\ BigLt(TailSize, Zero)

\* C4: whenever a Rom is returned, the signature is absent iff
\* signature_size = 0, the cert chain is absent iff cert_chain_size = 0, the
\* tail is absent iff tail_size = 0, and the overlay is present iff the input
\* is longer than image_start + image_size.
C4_PresenceBySize ==
    Returned =>
        /\ (~ Present(rom.sig_data)) <=> (hdr.signature_size = Zero)
        /\ (~ Present(rom.cert_data)) <=> (hdr.cert_chain_size = Zero)
        /\ (~ Present(rom.tail_data)) <=> (TailSize = Zero)
        /\ Present(rom.overlay_data)
             <=> BigLt(BigAdd(image_start(hdr), hdr.image_size), InputLen)

\* The error raised for an input whose image starts within bounds but is empty
\* (a header of zeros and nothing after it).
EmptyImageOutcome == MbnRom([i \in 1..SBL_HEADER_SIZE |-> 0]).err

C6_BasesAreU32 ==
    Returned =>
        /\ IsU32(rom.code_base)
        /\ Present(rom.sig_data) => IsU32(rom.sig_base)
        /\ Present(rom.cert_data) => IsU32(rom.cert_base)
        /\ Present(rom.tail_data) => IsU32(rom.tail_base)
        /\ Present(rom.overlay_data) => IsU32(rom.overlay_base)

\* C7: for an input holding the whole image (image_size > 0) whose header has
\* code_size + signature_size + cert_chain_size <= image_size, the signature
\* (when signature_size > 0) is the signature_size bytes of the image after the
\* code at signature_virtual_address, the cert chain (when cert_chain_size > 0)
\* is the cert_chain_size bytes after the signature at
\* cert_chain_virtual_address, and the tail (when non-empty) is the rest of the
\* image at image_virtual_address + code_size + signature_size +
\* cert_chain_size.
C7_SectionsOfFullImage ==
    (Constructed /\ HasHeader /\ FullPayload /\ BigLeq(SizeSum, hdr.image_size)) =>
        LET cs == hdr.code_size.lo
            ss == hdr.signature_size.lo
            ts == hdr.cert_chain_size.lo
            rest == hdr.image_size.lo - (cs + ss + ts)
        IN  /\ rom.err = "ok"
            /\ ss > 0 => /\ rom.sig_data = [k \in 1..ss |-> ImageSlice[cs + k]]
                         /\ rom.sig_base = hdr.signature_virtual_address
            /\ ts > 0 => /\ rom.cert_data = [k \in 1..ts |-> ImageSlice[cs + ss + k]]
                         /\ rom.cert_base = hdr.cert_chain_virtual_address
            /\ rest > 0 => /\ Present(rom.tail_data)
                           /\ Len(rom.tail_data) = rest
                           /\ rom.tail_data = [k \in 1..rest |-> ImageSlice[cs + ss + ts + k]]
                           /\ BigSub(rom.tail_base, hdr.image_virtual_address)
                                = FromInt(cs + ss + ts)

C7_Witness ==
    /\ Returned /\ FullPayload /\ BigLeq(SizeSum, hdr.image_size)
    /\ BigLt(Zero, hdr.code_size)
    /\ Present(rom.sig_data) /\ Present(rom.cert_data) /\ Present(rom.tail_data)
    /\ rom.sig_data # rom.cert_data

\* C8: whenever a Rom is returned, code, signature, cert chain, tail and
\* overlay are taken from runs of input positions that follow one another in
\* that order and share no position.
C8_SourceRangesDisjointOrdered ==
    Returned =>
        LET ranges == <<src.code_data, Bytes(src.sig_data), Bytes(src.cert_data),
                        Bytes(src.tail_data), Bytes(src.overlay_data)>>
            datas == <<rom.code_data, Bytes(rom.sig_data), Bytes(rom.cert_data),
                       Bytes(rom.tail_data), Bytes(rom.overlay_data)>>
        IN  /\ \A k \in 1..5 : RangeOf(ranges[k], datas[k])
            /\ \A m \in 1..5 : \A k \in (m + 1)..5 : Before(ranges[m], ranges[k])

C8_Witness ==
    /\ Returned
    /\ Len(rom.code_data) > 0
    /\ Present(rom.sig_data) /\ Present(rom.cert_data)
    /\ Present(rom.tail_data) /\ Present(rom.overlay_data)

(***************************************************************************)
(* Properties of accept_file and load_file (specification Spec).           *)
(***************************************************************************)
\* The segments and the entry point a complete registration of the ROM parsed
\* from data leaves in the database: code, then signature, cert chain, tail
\* and overlay when present, then the entry point at code_base.
CompleteRegistration(data) ==
    LET r == MbnRom(data)
        opt(d, base) == IF Present(d) THEN <<<<"AddSegment", base, d>>>> ELSE <<>>
    IN  <<<<"AddSegment", r.code_base, r.code_data>>>>
        \o opt(r.sig_data, r.sig_base) \o opt(r.cert_data, r.cert_base)
        \o opt(r.tail_data, r.tail_base) \o opt(r.overlay_data, r.overlay_base)
        \o <<<<"add_entry", r.code_base, <<>>>>>>

RECURSIVE CompleteRegistrations(_)
CompleteRegistrations(roms) ==
    IF roms = <<>> THEN <<>>
    ELSE CompleteRegistration(Head(roms)[2]) \o CompleteRegistrations(Tail(roms))

IsComment(e) == e.op = "describe"

NotComment(e) == e.op # "describe"

\* The segments and entry points in the database, in the order they were made.
Registered ==
    LET made == SelectSeq(idb, NotComment)
    IN  [i \in 1..Len(made) |->
            IF made[i].op = "AddSegment"
            THEN <<"AddSegment", made[i].startEA, made[i].data>>
            ELSE <<"add_entry", made[i].ea, <<>>>>]

CommentsPerRom == 12

\* C9: when the parse of a file fails in load_file's loop, the database holds
\* nothing of that file: it holds exactly the complete registrations (and the
\* comments) of the files parsed before it, each of which parsed successfully.
C9_FailedParseRegistersNothing ==
    pc = "ValueError" =>
        /\ MbnRom(rom_data).err # "ok"
        /\ \A i \in 1..Len(loaded) : MbnRom(loaded[i][2]).err = "ok"
        /\ Registered = CompleteRegistrations(loaded)
        /\ Len(SelectSeq(idb, IsComment)) = CommentsPerRom * Len(loaded)

C9_Witness ==
    /\ pc = "ValueError"
    /\ Len(loaded) >= 1
    /\ Len(rom_data) >= SBL_HEADER_SIZE
    /\ Len(Registered) >= 4

\* C10: accept_file returns the 'MBN ROM' format record iff n = 0 and the
\* file's contents parse, and 0 otherwise; load_file on an accepted file never
\* fails in the parse of its first pass and registers the code segment of that
\* file first.
C10_AcceptedFileLoads ==
    /\ ret # NotCalled =>
          /\ ret \in {Accepted, Rejected}
          /\ ret = Accepted <=> (n = 0 /\ MbnRom(li).err = "ok")
    /\ pc # "accept_file" => ret = Accepted
    /\ pc = "ValueError" => Len(loaded) >= 1
    /\ pc \in {"AskFile", "done", "IOError", "ValueError"} =>
          /\ Len(idb) >= 1
          /\ idb[1].op = "AddSegment"
          /\ idb[1].data = Extract(li, ImageIndicesOf(li, MbnHeader(li).code_size))

C10_Witness ==
    /\ pc = "AskFile"
    /\ ret = Accepted
    /\ Len(loaded) = 1
    /\ Len(idb[1].data) > 0

====
